---- MODULE Spec2Model ----
(***************************************************************************)
(* serial-monitor: the lossy incremental UTF-8 decoder (string_decoder.rs), *)
(* the key translator (handle_key_event) and the session loop (monitor,    *)
(* main) of src/main.rs.                                                    *)
(*                                                                         *)
(* Bytes are integers 0..255, text is a sequence of Unicode scalar values. *)
(***************************************************************************)
EXTENDS Integers, Sequences, FiniteSets, TLC

\* The field names of the model's records.  Every record below is written
\* with its fields in this order.
FieldOrder ==
    [arm |-> 1, buf |-> 2, ch |-> 3, code |-> 4, ctrl_y_exit |-> 5, data |-> 6,
     echo |-> 7, enter |-> 8, ev |-> 9, incomplete |-> 10, index |-> 11, k |-> 12,
     kind |-> 13, modifiers |-> 14, ok |-> 15, ret |-> 16, shown |-> 17, src |-> 18,
     state |-> 19, tag |-> 20, text |-> 21, type |-> 22]

VARIABLES
    \* ---- decoder harness (string_decoder.rs) ----
    text,        \* the text the device encoded into input
    input,       \* the byte stream the serial line will deliver
    fed,         \* how many bytes of input have been appended to src
    src,         \* the BytesMut handed to decode
    incomplete,  \* StringDecoder.incomplete: (index, [u8; 4])
    out,         \* concatenation of the text fragments decode returned
    lastRet,     \* the last value decode returned
    \* ---- translator and session (main.rs) ----
    config,      \* Config: enter, ctrl_y_exit, echo
    debug,       \* cli.debug
    mainPc,      \* where main is
    exit,        \* how main ended and the exit status; <<>> while it runs
    rawMode,     \* terminal raw mode as crossterm left it
    disableCalls,\* number of calls of disable_raw_mode
    loopState,   \* the select! loop of monitor: Running or Terminated
    reason,      \* which arm ended the loop
    result,      \* what monitor returned
    evbuf,       \* items the terminal event stream holds, oldest first
    consumed,    \* number of items taken from the event stream
    outq,        \* the unbounded channel serial_writer -> serial_consumer
    written,     \* chunks the forward future wrote to the serial sink
    poll_send,   \* the forward future, which owns the receiver of the channel
    serialSeen,  \* number of items taken from the framed serial reader
    display,     \* writes to stdout, oldest first
    last         \* the select! arm that ran last, with what it saw and did

decVars == <<text, input, fed, src, incomplete, out, lastRet>>
sesVars == <<config, debug, mainPc, exit, rawMode, disableCalls, loopState,
             reason, result, evbuf, consumed, outq, written, poll_send, serialSeen,
             display, last>>
vars == <<text, input, fed, src, incomplete, out, lastRet,
          config, debug, mainPc, exit, rawMode, disableCalls, loopState,
          reason, result, evbuf, consumed, outq, written, poll_send, serialSeen,
          display, last>>

-----------------------------------------------------------------------------
(* UTF-8, as core::str::from_utf8 validates it and char::encode_utf8 writes it *)

REPLACEMENT_CHARACTER == 65533

IsCont(b) == b >= 128 /\ b <= 191

\* Length of the well-formed character that starts at s[i]; 0 when the bytes
\* there are ill-formed or the character is cut off by the end of s.
CharLenAt(s, i) ==
    LET n == Len(s)
        b0 == s[i]
        cont(k) == i + k <= n /\ IsCont(s[i + k])
        second(lo, hi) == i + 1 <= n /\ s[i + 1] >= lo /\ s[i + 1] <= hi
    IN  IF b0 < 128 THEN 1
        ELSE IF b0 >= 194 /\ b0 <= 223 THEN (IF cont(1) THEN 2 ELSE 0)
        ELSE IF b0 = 224 THEN (IF second(160, 191) /\ cont(2) THEN 3 ELSE 0)
        ELSE IF b0 = 237 THEN (IF second(128, 159) /\ cont(2) THEN 3 ELSE 0)
        ELSE IF b0 >= 225 /\ b0 <= 239 THEN (IF cont(1) /\ cont(2) THEN 3 ELSE 0)
        ELSE IF b0 = 240 THEN (IF second(144, 191) /\ cont(2) /\ cont(3) THEN 4 ELSE 0)
        ELSE IF b0 = 244 THEN (IF second(128, 143) /\ cont(2) /\ cont(3) THEN 4 ELSE 0)
        ELSE IF b0 >= 241 /\ b0 <= 243 THEN (IF cont(1) /\ cont(2) /\ cont(3) THEN 4 ELSE 0)
        ELSE 0

RECURSIVE ValidFrom(_, _)
\* Number of leading bytes of s, counted from position i, that are valid UTF-8.
ValidFrom(s, i) ==
    IF i > Len(s) THEN Len(s)
    ELSE LET k == CharLenAt(s, i)
         IN  IF k = 0 THEN i - 1 ELSE ValidFrom(s, i + k)

\* Utf8Error::valid_up_to of str::from_utf8(s); Len(s) when from_utf8 is Ok.
valid_up_to(s) == ValidFrom(s, 1)

from_utf8_ok(s) == valid_up_to(s) = Len(s)

\* The scalar value of the well-formed character of k bytes at s[i].
CodePoint(s, i, k) ==
    IF k = 1 THEN s[i]
    ELSE IF k = 2 THEN (s[i] % 32) * 64 + (s[i + 1] % 64)
    ELSE IF k = 3 THEN (s[i] % 16) * 4096 + (s[i + 1] % 64) * 64 + (s[i + 2] % 64)
    ELSE (s[i] % 8) * 262144 + (s[i + 1] % 64) * 4096
         + (s[i + 2] % 64) * 64 + (s[i + 3] % 64)

RECURSIVE CharsFrom(_, _)
CharsFrom(s, i) ==
    IF i > Len(s) THEN <<>>
    ELSE LET k == CharLenAt(s, i)
         IN  <<CodePoint(s, i, k)>> \o CharsFrom(s, i + k)

\* The text of a byte string known to be valid (str::from_utf8_unchecked).
to_str(s) == CharsFrom(s, 1)

\* char::encode_utf8
encode_utf8(ch) ==
    IF ch < 128 THEN <<ch>>
    ELSE IF ch < 2048 THEN <<192 + (ch \div 64), 128 + (ch % 64)>>
    ELSE IF ch < 65536
         THEN <<224 + (ch \div 4096), 128 + ((ch \div 64) % 64), 128 + (ch % 64)>>
    ELSE <<240 + (ch \div 262144), 128 + ((ch \div 4096) % 64),
           128 + ((ch \div 64) % 64), 128 + (ch % 64)>>

RECURSIVE str_bytes(_)
\* The UTF-8 encoding of a text.
str_bytes(t) == IF t = <<>> THEN <<>> ELSE encode_utf8(Head(t)) \o str_bytes(Tail(t))

-----------------------------------------------------------------------------
(* StringDecoder *)

None == [kind |-> "None", text |-> <<>>]
Some(t) == [kind |-> "Some", text |-> t]

\* StringDecoder::new
StringDecoder_new == [buf |-> <<0, 0, 0, 0>>, index |-> 0]

\* The text returned for a valid run of bytes with the stored bytes dropped
\* without a mark.
FlushPending_NoMark(index, valid) == to_str(valid)

\* The text returned for a valid run of bytes: it is prefixed with one
\* replacement character when a partial character was stored.
FlushPending(index, valid) ==
    IF index > 0 THEN <<REPLACEMENT_CHARACTER>> \o to_str(valid) ELSE to_str(valid)

\* The Err(_) arm with the buffer taken to be full at three bytes.
DecodeErrArm_FullAt3(inc, s) ==
    LET buf == [inc.buf EXCEPT ![inc.index + 1] = s[1]]
        index == inc.index + 1
        rest == Tail(s)
    IN  IF from_utf8_ok(SubSeq(buf, 1, index))
        THEN [incomplete |-> [buf |-> buf, index |-> 0],
              ret |-> Some(to_str(SubSeq(buf, 1, index))), src |-> rest]
        ELSE IF index = 3
        THEN [incomplete |-> [buf |-> buf, index |-> 0],
              ret |-> Some(<<REPLACEMENT_CHARACTER>>), src |-> rest]
        ELSE [incomplete |-> [buf |-> buf, index |-> index],
              ret |-> None, src |-> rest]

\* The Err(_) arm reporting four stored bytes that form no character as an
\* error of the stream instead of returning U+FFFD.
DecodeErrArm_ErrWhenFull(inc, s) ==
    LET buf == [inc.buf EXCEPT ![inc.index + 1] = s[1]]
        index == inc.index + 1
        rest == Tail(s)
    IN  IF from_utf8_ok(SubSeq(buf, 1, index))
        THEN [incomplete |-> [buf |-> buf, index |-> 0],
              ret |-> Some(to_str(SubSeq(buf, 1, index))), src |-> rest]
        ELSE IF index = 4
        THEN [incomplete |-> [buf |-> buf, index |-> 0],
              ret |-> [kind |-> "Err", text |-> <<>>], src |-> rest]
        ELSE [incomplete |-> [buf |-> buf, index |-> index],
              ret |-> None, src |-> rest]

\* The Err(_) arm returning U+FFFD for a full buffer without emptying it.
DecodeErrArm_NoReset(inc, s) ==
    LET buf == [inc.buf EXCEPT ![inc.index + 1] = s[1]]
        index == inc.index + 1
        rest == Tail(s)
    IN  IF from_utf8_ok(SubSeq(buf, 1, index))
        THEN [incomplete |-> [buf |-> buf, index |-> 0],
              ret |-> Some(to_str(SubSeq(buf, 1, index))), src |-> rest]
        ELSE IF index >= 4
        THEN [incomplete |-> [buf |-> buf, index |-> index],
              ret |-> Some(<<REPLACEMENT_CHARACTER>>), src |-> rest]
        ELSE [incomplete |-> [buf |-> buf, index |-> index],
              ret |-> None, src |-> rest]

\* The Err(_) arm copying the first byte of src without taking it from src.
DecodeErrArm_Peek(inc, s) ==
    LET buf == [inc.buf EXCEPT ![inc.index + 1] = s[1]]
        index == inc.index + 1
    IN  IF from_utf8_ok(SubSeq(buf, 1, index))
        THEN [incomplete |-> [buf |-> buf, index |-> 0],
              ret |-> Some(to_str(SubSeq(buf, 1, index))), src |-> s]
        ELSE IF index = 4
        THEN [incomplete |-> [buf |-> buf, index |-> 0],
              ret |-> Some(<<REPLACEMENT_CHARACTER>>), src |-> s]
        ELSE [incomplete |-> [buf |-> buf, index |-> index],
              ret |-> None, src |-> s]

\* The Err(_) arm of decode: one byte moves from src to the pending buffer.
DecodeErrArm(inc, s) ==
    LET buf == [inc.buf EXCEPT ![inc.index + 1] = s[1]]
        index == inc.index + 1
        rest == Tail(s)
    IN  IF from_utf8_ok(SubSeq(buf, 1, index))
        THEN [incomplete |-> [buf |-> buf, index |-> 0],
              ret |-> Some(to_str(SubSeq(buf, 1, index))), src |-> rest]
        ELSE IF index = 4
        THEN [incomplete |-> [buf |-> buf, index |-> 0],
              ret |-> Some(<<REPLACEMENT_CHARACTER>>), src |-> rest]
        ELSE [incomplete |-> [buf |-> buf, index |-> index],
              ret |-> None, src |-> rest]

\* StringDecoder::decode(&mut self, src): the decoder and src afterwards, and
\* the returned value.
decode(inc, s) ==
    IF s = <<>> THEN [incomplete |-> inc, ret |-> None, src |-> s]
    ELSE LET v == valid_up_to(s)
         IN  IF v < Len(s) /\ v > 0
             THEN [incomplete |-> [inc EXCEPT !.index = 0],
                   ret |-> Some(FlushPending(inc.index, SubSeq(s, 1, v))),
                   src |-> SubSeq(s, v + 1, Len(s))]
             ELSE IF v < Len(s)
             THEN DecodeErrArm(inc, s)
             ELSE [incomplete |-> [inc EXCEPT !.index = 0],
                   ret |-> Some(FlushPending(inc.index, s)),
                   src |-> <<>>]

-----------------------------------------------------------------------------
(* The framed reader drives the decoder: bytes read from the port are      *)
(* appended to src and decode is invoked on what src holds.                *)

\* Bytes arrive from the port: the next n bytes of input are appended to src.
Feed(n) ==
    /\ n >= 1
    /\ fed + n <= Len(input)
    /\ src' = src \o SubSeq(input, fed + 1, fed + n)
    /\ fed' = fed + n
    /\ UNCHANGED <<input, text, incomplete, out, lastRet>>
    /\ UNCHANGED sesVars

\* decode is invoked on the bytes src holds; a returned fragment is kept.
DecodeCall ==
    /\ src # <<>>
    /\ LET r == decode(incomplete, src)
       IN  /\ incomplete' = r.incomplete
           /\ src' = r.src
           /\ out' = out \o r.ret.text
           /\ lastRet' = r.ret
    /\ UNCHANGED <<input, text, fed>>
    /\ UNCHANGED sesVars

RECURSIVE DecodeAll(_, _)
\* The text that comes out of a chunk s when decode is invoked again and again
\* until it has taken every byte of s.
DecodeAll(inc, s) ==
    IF s = <<>> THEN <<>>
    ELSE LET r == decode(inc, s)
         IN  r.ret.text \o DecodeAll(r.incomplete, r.src)

RECURSIVE DecodeUntilNone(_, _)
\* The framed reader invokes decode on its buffer, yielding each text decode
\* returns, until decode returns None; then it waits for the port.
DecodeUntilNone(inc, s) ==
    LET r == decode(inc, s)
    IN  IF r.ret.kind = "None"
        THEN [incomplete |-> r.incomplete, src |-> r.src, text |-> <<>>]
        ELSE LET d == DecodeUntilNone(r.incomplete, r.src)
             IN  [incomplete |-> d.incomplete, src |-> d.src,
                  text |-> r.ret.text \o d.text]

\* serial_reader.next(): the framed reader, its last decode having returned
\* None, reads the n bytes that have arrived behind what its buffer holds and
\* decodes until decode returns None again.  Bytes decode has left in the
\* buffer by then wait for the next read.
FramedRead_poll_next(n) ==
    /\ n >= 1
    /\ fed + n <= Len(input)
    /\ LET d == DecodeUntilNone(incomplete, src \o SubSeq(input, fed + 1, fed + n))
       IN  /\ incomplete' = d.incomplete
           /\ src' = d.src
           /\ out' = out \o d.text
    /\ fed' = fed + n
    /\ lastRet' = None
    /\ UNCHANGED <<input, text>>
    /\ UNCHANGED sesVars

\* Every byte of input has been fed and decode has taken every byte of src.
AllConsumed == fed = Len(input) /\ src = <<>>

-----------------------------------------------------------------------------
(* Terminal events (crossterm::event::Event) and the key translator *)

NoCode == [ch |-> 0, k |-> "-"]
Named(k) == [ch |-> 0, k |-> k]
Char(ch) == [ch |-> ch, k |-> "Char"]
F(n) == [ch |-> n, k |-> "F"]

\* KeyModifiers and KeyEventState are bit sets: SHIFT is bit 0, CONTROL bit 1
\* and ALT bit 2 of the modifiers; NONE is no bit.
NONE == 0
SHIFT == 1
CONTROL == 2
ALT == 4

\* KeyEventState::CAPS_LOCK (KeyEventState::NONE is NONE)
CAPS_LOCK == 8

\* key_event.modifiers & KeyModifiers::CONTROL == KeyModifiers::CONTROL
HasControl(modifiers) == (modifiers \div CONTROL) % 2 = 1

\* Event::Key(KeyEvent {code, modifiers, kind, state})
Key(code, modifiers, kind, state) ==
    [code |-> code, kind |-> kind, modifiers |-> modifiers, state |-> state,
     type |-> "Key"]

\* An event that is no key event, e.g. Event::Resize.
OtherEvent(type) ==
    [code |-> NoCode, kind |-> "-", modifiers |-> NONE, state |-> NONE, type |-> type]

NoEvent == OtherEvent("-")

\* Eol::bytes
Eol_bytes(enter) ==
    CASE enter = "Cr" -> <<13>>
      [] enter = "Crlf" -> <<13, 10>>
      [] enter = "Lf" -> <<10>>

\* exit_char
exit_char(cfg) == IF cfg.ctrl_y_exit THEN 121 ELSE 120

\* exit_code
exit_code(cfg) == Key(Char(exit_char(cfg)), CONTROL, "Press", NONE)

is_ascii_lowercase(ch) == ch >= 97 /\ ch <= 122

\* The KeyCode::Char arm with Control-4..7 masked but not shifted by 8.
CharBytes_DigitsMasked(ch, modifiers) ==
    IF HasControl(modifiers)
    THEN LET buf0 == ch % 256
         IN  IF is_ascii_lowercase(ch) \/ ch = 32
             THEN <<buf0 % 32>>
             ELSE IF ch >= 52 /\ ch <= 55
             THEN <<buf0 % 32>>
             ELSE encode_utf8(ch)
    ELSE encode_utf8(ch)

\* The KeyCode::Char arm of handle_key_event; buf[0] is a u8.
CharBytes(ch, modifiers) ==
    IF HasControl(modifiers)
    THEN LET buf0 == ch % 256
         IN  IF is_ascii_lowercase(ch) \/ ch = 32
             THEN <<buf0 % 32>>
             ELSE IF ch >= 52 /\ ch <= 55
             THEN <<((buf0 + 8) % 256) % 32>>
             ELSE encode_utf8(ch)
    ELSE encode_utf8(ch)

\* key_str of handle_key_event: the match on key_event.code.
key_str(key_event, cfg) ==
    LET k == key_event.code.k
    IN  CASE k = "Backspace" -> Some(<<8>>)
          [] k = "Enter" -> Some(Eol_bytes(cfg.enter))
          [] k = "Left" -> Some(<<27, 91, 68>>)
          [] k = "Right" -> Some(<<27, 91, 67>>)
          [] k = "Home" -> Some(<<27, 91, 72>>)
          [] k = "End" -> Some(<<27, 91, 70>>)
          [] k = "Up" -> Some(<<27, 91, 65>>)
          [] k = "Down" -> Some(<<27, 91, 66>>)
          [] k = "Tab" -> Some(<<9>>)
          [] k = "Delete" -> Some(<<27, 91, 51, 126>>)
          [] k = "Insert" -> Some(<<27, 91, 50, 126>>)
          [] k = "Esc" -> Some(<<27>>)
          [] k = "Char" -> Some(CharBytes(key_event.code.ch, key_event.modifiers))
          [] OTHER -> None

\* A failure of stdout is modelled where the source tests for it, at
\* stdout().flush()?; the print macros themselves are taken to succeed.
\* One write to stdout.  kind is "echo" (the local echo of a key), "serial"
\* (text from the device), "trace" (a line printed only when debug is on) or
\* "log" (a line printed whatever debug is); data is what was written.
Shown(kind, data) == [data |-> data, kind |-> kind]

\* The local echo done whatever config.echo says.
Echoes_IgnoresFlag(cfg, bytes) == from_utf8_ok(bytes)

\* The local echo of handle_key_event: printed when echo is on and the bytes
\* are valid UTF-8.
Echoes(cfg, bytes) == cfg.echo /\ from_utf8_ok(bytes)

\* handle_key_event(key_event, config, debug).  flushOk is whether
\* stdout().flush() succeeds; when it fails the function returns Err.
handle_key_event(key_event, cfg, dbg, flushOk) ==
    LET ks == key_str(key_event, cfg)
        trace1 == IF dbg THEN <<Shown("trace", "Event")>> ELSE <<>>
        trace2 == IF dbg /\ ks.kind = "Some" THEN <<Shown("trace", "Send")>> ELSE <<>>
        echo == ks.kind = "Some" /\ Echoes(cfg, ks.text)
    IN  IF echo /\ ~flushOk
        THEN [ok |-> FALSE, ret |-> None, shown |-> trace1 \o trace2]
        ELSE [ok |-> TRUE, ret |-> ks,
              shown |-> trace1 \o trace2
                        \o (IF echo THEN <<Shown("echo", ks.text)>> ELSE <<>>)]

-----------------------------------------------------------------------------
(* main and monitor *)

\* Items of the terminal event stream and of the framed serial reader:
\* Some(Ok(..)), Some(Err(..)) and None.
OkItem(ev) == [ev |-> ev, tag |-> "Ok"]
ErrItem == [ev |-> NoEvent, tag |-> "Err"]
NoneItem == [ev |-> NoEvent, tag |-> "None"]

Ran(arm, tag, ev) == [arm |-> arm, ev |-> ev, tag |-> tag]

\* The exit status of the process: ExitCode::SUCCESS; ExitCode::FAILURE, which
\* the runtime gives when main returns Err(..); and the ExitCode::from(1) of
\* no_usp_ports_found.
SUCCESS == 0
FAILURE == 1
no_usp_ports_found == 1

\* main has returned: what ended it, and the status the process exits with.
Exited(why, status) == <<why, status>>

\* DataBitsOpt::try_from and StopBitsOpt::try_from: whether the value is Ok.
DataBitsOpt_try_from(value) == value \in {5, 6, 7, 8}
StopBitsOpt_try_from(value) == value \in {1, 2}

\* main returns before the session: by ? with an error, or with the status of
\* no_usp_ports_found.
MainReturns(why, status) ==
    /\ mainPc' = "exited"
    /\ exit' = Exited(why, status)

\* A step of main ahead of the session; nothing of the session has started.
MainStep(pc) ==
    /\ mainPc = pc
    /\ UNCHANGED <<config, debug, rawMode, disableCalls, loopState, reason, result,
                   evbuf, consumed, outq, written, poll_send, serialSeen, display, last>>
    /\ UNCHANGED decVars

\* main: let Some(port_name) = find_port(..)? else { return Ok(no_usp_ports_found()) };
FindPort(found) ==
    /\ MainStep("find_port")
    /\ CASE found = "Some" -> mainPc' = "data_bits" /\ UNCHANGED exit
         [] found = "None" -> MainReturns("NoPortFound", no_usp_ports_found)
         [] found = "Err" -> MainReturns("FindPortError", FAILURE)

\* main: DataBitsOpt::try_from(config.databits)?
DataBits(value) ==
    /\ MainStep("data_bits")
    /\ IF DataBitsOpt_try_from(value)
       THEN mainPc' = "stop_bits" /\ UNCHANGED exit
       ELSE MainReturns("InvalidDataBits", FAILURE)

\* main: StopBitsOpt::try_from(config.stopbits)?
StopBits(value) ==
    /\ MainStep("stop_bits")
    /\ IF StopBitsOpt_try_from(value)
       THEN mainPc' = "open" /\ UNCHANGED exit
       ELSE MainReturns("InvalidStopBits", FAILURE)

\* main: ..open_native_async().wrap_err_with(..)?
OpenPort(ok) ==
    /\ MainStep("open")
    /\ IF ok
       THEN mainPc' = "enable_raw_mode" /\ UNCHANGED exit
       ELSE MainReturns("UnableToOpen", FAILURE)

\* main: enable_raw_mode()?; then monitor(..) starts its loop.
EnableRawMode(ok) ==
    /\ mainPc = "enable_raw_mode"
    /\ IF ok
       THEN /\ rawMode' = TRUE
            /\ mainPc' = "monitor"
            /\ loopState' = "Running"
            /\ poll_send' = "polling"
            /\ UNCHANGED exit
       ELSE /\ mainPc' = "exited"
            /\ exit' = Exited("RawModeError", FAILURE)
            /\ UNCHANGED <<rawMode, loopState, poll_send>>
    /\ UNCHANGED <<config, debug, disableCalls, reason, result, evbuf, consumed,
                   outq, written, serialSeen, display, last>>
    /\ UNCHANGED decVars

\* The terminal delivers an item to the event stream.
TerminalInput(item, limit) ==
    /\ mainPc = "monitor"
    /\ consumed + Len(evbuf) < limit
    /\ evbuf' = Append(evbuf, item)
    /\ UNCHANGED <<config, debug, mainPc, exit, rawMode, disableCalls, loopState,
                   reason, result, consumed, outq, written, poll_send, serialSeen,
                   display, last>>
    /\ UNCHANGED decVars

\* The loop is left: by break (monitor returns Ok) or by ? (it returns Err).
Leave(why, res) ==
    /\ loopState' = "Terminated"
    /\ reason' = why
    /\ result' = res

Stay == UNCHANGED <<loopState, reason, result>>

\* The receiving end of the channel lives as long as the future that owns it.
ReceiverAlive == poll_send \in {"polling", "failed"}

\* The Some(Ok(event)) arm for an event that is not the exit code.
\* unbounded_send(key).unwrap() panics when the receiver is gone.
HandleEvent(event, flushOk) ==
    IF event.type = "Key"
    THEN LET h == handle_key_event(event, config, debug, flushOk)
         IN  /\ display' = display \o h.shown
             /\ IF ~h.ok
                THEN Leave("Error", "Err") /\ UNCHANGED outq
                ELSE IF h.ret.kind = "Some" /\ ~ReceiverAlive
                THEN Leave("Panic", "Panic") /\ UNCHANGED outq
                ELSE /\ Stay
                     /\ outq' = IF h.ret.kind = "Some"
                                THEN Append(outq, h.ret.text)
                                ELSE outq
    ELSE /\ display' = Append(display, Shown("log", "Unrecognized Event"))
         /\ Stay
         /\ UNCHANGED outq

\* The exit test with the exit letter fixed to 'x', whatever -y says.
IsExit_AlwaysCtrlX(event) == event = Key(Char(120), CONTROL, "Press", NONE)

\* The exit test looking at the letter and the Control bit only.
IsExit_LetterAndControl(event) ==
    /\ event.type = "Key"
    /\ event.code = Char(exit_char(config))
    /\ HasControl(event.modifiers)

\* Whether the loop breaks on this event.
IsExit(event) == event = exit_code(config)

\* select!: maybe_event = event
EventArm(flushOk) ==
    /\ mainPc = "monitor"
    /\ loopState = "Running"
    /\ evbuf # <<>>
    /\ LET item == Head(evbuf)
       IN  /\ evbuf' = Tail(evbuf)
           /\ consumed' = consumed + 1
           /\ last' = Ran("event", item.tag, item.ev)
           /\ CASE item.tag = "Ok" ->
                     IF IsExit(item.ev)
                     THEN Leave("UserExit", "Ok") /\ UNCHANGED <<outq, display>>
                     ELSE HandleEvent(item.ev, flushOk)
                [] item.tag = "Err" ->
                     /\ display' = Append(display, Shown("log", "crossterm Error"))
                     /\ Stay
                     /\ UNCHANGED outq
                [] item.tag = "None" ->
                     /\ display' = Append(display,
                                          Shown("log", "maybe_event returned None"))
                     /\ Stay
                     /\ UNCHANGED outq
    /\ UNCHANGED <<config, debug, mainPc, exit, rawMode, disableCalls, written,
                   poll_send, serialSeen>>
    /\ UNCHANGED decVars

\* The Some(Err(e)) arm without its break.
OnSerialError_NoBreak ==
    /\ display' = Append(display, Shown("log", "Serial Error"))
    /\ Stay

\* The Some(Err(e)) arm of maybe_serial: the error is printed and the loop
\* is left by break, so monitor returns Ok(()).
OnSerialError ==
    /\ display' = Append(display, Shown("log", "Serial Error"))
    /\ Leave("SerialError", "Ok")

\* The serial arm of a loop that finishes the queued writes before it reads.
SerialArm_AfterWrite(item, s, flushOk) ==
    /\ mainPc = "monitor"
    /\ loopState = "Running"
    /\ outq = <<>>
    /\ serialSeen' = serialSeen + 1
    /\ last' = Ran("serial", item.tag, NoEvent)
    /\ CASE item.tag = "Ok" ->
              IF debug
              THEN /\ display' = Append(display, Shown("trace", "Serial Event"))
                   /\ Stay
              ELSE IF flushOk
              THEN /\ display' = Append(display, Shown("serial", s))
                   /\ Stay
              ELSE /\ Leave("Error", "Err")
                   /\ UNCHANGED display
         [] item.tag = "Err" -> OnSerialError
         [] item.tag = "None" ->
              /\ display' = Append(display, Shown("log", "maybe_serial returned None"))
              /\ Stay
    /\ UNCHANGED <<config, debug, mainPc, exit, rawMode, disableCalls, evbuf, consumed,
                   outq, written, poll_send>>
    /\ UNCHANGED decVars

\* select!: maybe_serial = serial_event.  item is what the framed reader
\* yields; s is the text of a Some(Ok(..)) item.
SerialArm(item, s, flushOk) ==
    /\ mainPc = "monitor"
    /\ loopState = "Running"
    /\ serialSeen' = serialSeen + 1
    /\ last' = Ran("serial", item.tag, NoEvent)
    /\ CASE item.tag = "Ok" ->
              IF debug
              THEN /\ display' = Append(display, Shown("trace", "Serial Event"))
                   /\ Stay
              ELSE IF flushOk
              THEN /\ display' = Append(display, Shown("serial", s))
                   /\ Stay
              ELSE /\ Leave("Error", "Err")
                   /\ UNCHANGED display
         [] item.tag = "Err" -> OnSerialError
         [] item.tag = "None" ->
              /\ display' = Append(display, Shown("log", "maybe_serial returned None"))
              /\ Stay
    /\ UNCHANGED <<config, debug, mainPc, exit, rawMode, disableCalls, evbuf, consumed,
                   outq, written, poll_send>>
    /\ UNCHANGED decVars

\* poll_send forwarding the newest queued chunk instead of the oldest.
ForwardWrite_Lifo ==
    /\ mainPc = "monitor"
    /\ loopState = "Running"
    /\ outq # <<>>
    /\ written' = Append(written, outq[Len(outq)])
    /\ outq' = SubSeq(outq, 1, Len(outq) - 1)
    /\ UNCHANGED <<config, debug, mainPc, exit, rawMode, disableCalls, loopState,
                   reason, result, evbuf, consumed, poll_send, serialSeen, display,
                   last>>
    /\ UNCHANGED decVars

\* poll_send, polled by select!, forwards the oldest queued chunk to the sink.
ForwardWrite ==
    /\ mainPc = "monitor"
    /\ loopState = "Running"
    /\ outq # <<>>
    /\ written' = Append(written, Head(outq))
    /\ outq' = Tail(outq)
    /\ UNCHANGED <<config, debug, mainPc, exit, rawMode, disableCalls, loopState,
                   reason, result, evbuf, consumed, poll_send, serialSeen, display,
                   last>>
    /\ UNCHANGED decVars

\* What the loop does when poll_send completes: `_ = poll_send => {}`.
PollSendDone == Stay

\* The forward future dropping its stream, and with it the receiver of the
\* channel, when it completes with an error.
ForwardErr_DropsStream == poll_send' = "dropped"

\* The forward future completes with the error of the sink.  It keeps its sink
\* and its stream: it is not terminated and it is polled again by the next
\* select!.
ForwardErr == poll_send' = "failed"

\* select!: _ = poll_send.  The forward future completes only with the error
\* of a write to the sink (the channel's sender lives as long as the loop);
\* the chunk that could not be written stays unwritten.
PollSendArm ==
    /\ mainPc = "monitor"
    /\ loopState = "Running"
    /\ outq # <<>>
    /\ last' = Ran("poll_send", "Err", NoEvent)
    /\ PollSendDone
    /\ ForwardErr
    /\ UNCHANGED <<config, debug, mainPc, exit, rawMode, disableCalls, evbuf, consumed,
                   outq, written, serialSeen, display>>
    /\ UNCHANGED decVars

\* main with result? ahead of disable_raw_mode().
AfterMonitor_ResultFirst(ok) ==
    IF result = "Err"
    THEN /\ mainPc' = "exited"
         /\ exit' = Exited("SessionError", FAILURE)
         /\ UNCHANGED <<disableCalls, rawMode>>
    ELSE /\ disableCalls' = disableCalls + 1
         /\ rawMode' = IF ok THEN FALSE ELSE rawMode
         /\ mainPc' = "exited"
         /\ exit' = IF ok THEN Exited("Ok", SUCCESS)
                         ELSE Exited("RawModeError", FAILURE)

\* main, once monitor has returned: disable_raw_mode()?; println!(); result?;
AfterMonitor(ok) ==
    /\ disableCalls' = disableCalls + 1
    /\ rawMode' = IF ok THEN FALSE ELSE rawMode
    /\ mainPc' = "exited"
    /\ exit' = IF ~ok THEN Exited("RawModeError", FAILURE)
               ELSE IF result = "Err" THEN Exited("SessionError", FAILURE)
               ELSE Exited("Ok", SUCCESS)

\* monitor returns, which drops its locals, and main goes on.  A panic of
\* monitor unwinds through main instead.
MonitorReturns(ok) ==
    /\ mainPc = "monitor"
    /\ loopState = "Terminated"
    /\ result # "Panic"
    /\ poll_send' = "dropped"
    /\ AfterMonitor(ok)
    /\ UNCHANGED <<config, debug, loopState, reason, result, evbuf, consumed,
                   outq, written, serialSeen, display, last>>
    /\ UNCHANGED decVars

-----------------------------------------------------------------------------
(* Bounds and input sets *)

\* Longest text the device sends, in characters.
MaxChars == 3
\* Number of items the terminal event stream delivers in a session.
MaxEvents == 2
\* Number of items the framed serial reader yields in a session.
MaxSerial == 1
\* Number of key events translated in the translator's specification.
MaxKeys == 1

\* 'a', e-acute, the euro sign and an emoji: one character of each encoded length.
Chars == {97, 233, 8364, 128512}

Texts(n) == UNION {[1..k -> Chars] : k \in 0..n}

\* Bytes that neither start nor continue any character where they stand:
\* 0xFF is never valid, 0x80 is a continuation byte with nothing to continue.
InvalidBytes == {255, 128}

\* Longest byte stream of arbitrary bytes the decoder is fed.
MaxBytes == 4

\* 'a', a continuation byte, the lead bytes of a two-byte, a three-byte and a
\* four-byte character, and a byte no character contains: C3 A9, E2 A9 A9 and
\* F0 A9 A9 A9 are characters, every other arrangement of these bytes is
\* malformed.
Bytes == {97, 169, 195, 226, 240, 255}

ByteStreams(n) == UNION {[1..k -> Bytes] : k \in 0..n}

\* Values of --databits and --stopbits: the accepted ones and their neighbours.
DataBitsValues == 4..9
StopBitsValues == 0..3

Configs == [ctrl_y_exit : BOOLEAN, echo : BOOLEAN, enter : {"Cr", "Crlf", "Lf"}]

\* The defaults of the command line: --enter cr, no -y, no --echo.
DefaultConfig == [ctrl_y_exit |-> FALSE, echo |-> FALSE, enter |-> "Cr"]

SessionEvents ==
    { Key(Char(120), CONTROL, "Press", NONE),
      Key(Char(121), CONTROL, "Press", NONE),
      Key(Char(113), NONE, "Press", NONE),
      Key(F(1), NONE, "Press", NONE),
      OtherEvent("Resize") }

SessionItems == {OkItem(e) : e \in SessionEvents} \cup {ErrItem, NoneItem}

SerialTexts == {<<104, 105>>}

KeyCodes ==
    {Named(k) : k \in {"Backspace", "Enter", "Left", "Right", "Up", "Down", "Home",
                       "End", "Tab", "Delete", "Insert", "Esc", "PageUp", "BackTab",
                       "Null"}}
    \cup {Char(c) : c \in {97, 113, 120, 121, 122, 32, 51, 52, 53, 54, 55, 56, 65,
                           96, 123, 233, 8364, 128512}}
    \cup {F(1)}

KeyEvents ==
    {Key(c, m, "Press", NONE) : c \in KeyCodes,
                                m \in {NONE, SHIFT, CONTROL, CONTROL + SHIFT}}

\* The exit code and the key events next to it: the letters x and y and the
\* capital X, with and without Control, with a further modifier, released
\* instead of pressed, and with Caps Lock reported.
NearExitEvents ==
    {Key(Char(c), m, kind, state) :
        c \in {88, 120, 121},
        m \in {NONE, CONTROL, CONTROL + SHIFT, CONTROL + ALT},
        kind \in {"Press", "Release"},
        state \in {NONE, CAPS_LOCK}}

-----------------------------------------------------------------------------
(* Specifications *)

DecoderFresh ==
    /\ fed = 0
    /\ src = <<>>
    /\ incomplete = StringDecoder_new
    /\ out = <<>>
    /\ lastRet = None

DecoderIdle ==
    /\ text = <<>>
    /\ input = <<>>
    /\ DecoderFresh

SessionStart(cfg, dbg) ==
    /\ config = cfg
    /\ debug = dbg
    /\ mainPc = "enable_raw_mode"
    /\ exit = <<>>
    /\ rawMode = FALSE
    /\ disableCalls = 0
    /\ loopState = "NotStarted"
    /\ reason = "-"
    /\ result = "-"
    /\ evbuf = <<>>
    /\ consumed = 0
    /\ outq = <<>>
    /\ written = <<>>
    /\ poll_send = "-"
    /\ serialSeen = 0
    /\ display = <<>>
    /\ last = Ran("-", "-", NoEvent)

\* main with no subcommand, after the command line has been parsed.
MainStart(cfg, dbg) ==
    /\ config = cfg
    /\ debug = dbg
    /\ mainPc = "find_port"
    /\ exit = <<>>
    /\ rawMode = FALSE
    /\ disableCalls = 0
    /\ loopState = "NotStarted"
    /\ reason = "-"
    /\ result = "-"
    /\ evbuf = <<>>
    /\ consumed = 0
    /\ outq = <<>>
    /\ written = <<>>
    /\ poll_send = "-"
    /\ serialSeen = 0
    /\ display = <<>>
    /\ last = Ran("-", "-", NoEvent)

\* The session: main from enable_raw_mode on, and the loop of monitor.
Init ==
    /\ DecoderIdle
    /\ \E cfg \in Configs, dbg \in BOOLEAN :
          cfg.enter = "Cr" /\ SessionStart(cfg, dbg)

Next ==
    \/ \E ok \in BOOLEAN : EnableRawMode(ok)
    \/ \E item \in SessionItems : TerminalInput(item, MaxEvents)
    \/ \E flushOk \in BOOLEAN : EventArm(flushOk)
    \/ \E item \in {ErrItem, NoneItem}, flushOk \in BOOLEAN :
          serialSeen < MaxSerial /\ SerialArm(item, <<>>, flushOk)
    \/ \E s \in SerialTexts, flushOk \in BOOLEAN :
          serialSeen < MaxSerial /\ SerialArm(OkItem(NoEvent), s, flushOk)
    \/ ForwardWrite
    \/ PollSendArm
    \/ \E ok \in BOOLEAN : MonitorReturns(ok)

Spec == Init /\ [][Next]_vars

\* The whole of main: the steps ahead of the session, and the session.
InitMain ==
    /\ DecoderIdle
    /\ \E cfg \in Configs, dbg \in BOOLEAN :
          cfg.enter = "Cr" /\ MainStart(cfg, dbg)

NextMain ==
    \/ \E found \in {"Some", "None", "Err"} : FindPort(found)
    \/ \E value \in DataBitsValues : DataBits(value)
    \/ \E value \in StopBitsValues : StopBits(value)
    \/ \E ok \in BOOLEAN : OpenPort(ok)
    \/ Next

SpecMain == InitMain /\ [][NextMain]_vars

\* The decoder fed a valid text in pieces.
InitRoundTrip ==
    /\ text \in Texts(MaxChars)
    /\ input = str_bytes(text)
    /\ DecoderFresh
    /\ SessionStart(DefaultConfig, FALSE)

NextDecoder ==
    \/ \E n \in 1..4 : Feed(n)
    \/ DecodeCall

SpecRoundTrip == InitRoundTrip /\ [][NextDecoder]_vars

\* The decoder fed a run of invalid bytes and then one valid character.
InitDamage ==
    /\ \E c \in Chars : text = <<c>>
    /\ \E k \in 1..4 : \E run \in [1..k -> InvalidBytes] : input = run \o str_bytes(text)
    /\ DecoderFresh
    /\ SessionStart(DefaultConfig, FALSE)

SpecDamage == InitDamage /\ [][NextDecoder]_vars

\* The decoder fed an arbitrary byte stream, well-formed or not, in pieces.
InitDec ==
    /\ text = <<>>
    /\ input \in ByteStreams(MaxBytes)
    /\ DecoderFresh
    /\ SessionStart(DefaultConfig, FALSE)

SpecDec == InitDec /\ [][NextDecoder]_vars

\* The decoder behind the framed reader, fed an arbitrary byte stream.
NextFramed == \E n \in 1..4 : FramedRead_poll_next(n)

SpecFramed == InitDec /\ [][NextFramed]_vars

\* The translator applied to every key of the table.
InitKey ==
    /\ DecoderIdle
    /\ \E cfg \in Configs, dbg \in BOOLEAN : SessionStart(cfg, dbg)

NextKey ==
    \/ EnableRawMode(TRUE)
    \/ \E e \in KeyEvents : TerminalInput(OkItem(e), MaxKeys)
    \/ \E flushOk \in BOOLEAN : EventArm(flushOk)

SpecKey == InitKey /\ [][NextKey]_vars

\* The loop given the exit code and the key events next to it.
NextExit ==
    \/ EnableRawMode(TRUE)
    \/ \E e \in NearExitEvents : TerminalInput(OkItem(e), MaxKeys)
    \/ \E flushOk \in BOOLEAN : EventArm(flushOk)

SpecExit == InitKey /\ [][NextExit]_vars

-----------------------------------------------------------------------------
(* Properties of the decoder *)

IsPrefix(a, b) == Len(a) <= Len(b) /\ a = SubSeq(b, 1, Len(a))

DamageContained ==
    AllConsumed => out = <<REPLACEMENT_CHARACTER>> \o text

\* decode is invoked in this step.
DecodeStep == src # <<>> /\ fed' = fed /\ src' # src

\* C11: the decoder never reports an error.  Whatever bytes it is given and
\* whatever it has stored, decode returns None or a text, never an error;
\* malformed bytes come out as U+FFFD only.
DecodeNeverErr ==
    /\ lastRet.kind \in {"None", "Some"}
    /\ lastRet.kind = "None" => lastRet.text = <<>>

\* Four bytes that form no character have filled the pending buffer and decode
\* returned U+FFFD for them.
DecodeNeverErrWitness ==
    /\ lastRet = Some(<<REPLACEMENT_CHARACTER>>)
    /\ incomplete = [buf |-> <<255, 255, 255, 255>>, index |-> 0]

\* p is the beginning of a well-formed character that needs more bytes: some
\* one to three further bytes complete it.  (Every prefix that can be
\* completed can be completed with the bytes 80, 90 and A0.)
IsCharPrefix(p) ==
    \/ p = <<>>
    \/ \E k \in 1..3 : \E c \in [1..k -> {128, 144, 160}] :
          CharLenAt(p \o c, 1) = Len(p) + k

\* The bytes the decoder has stored.
Pending == SubSeq(incomplete.buf, 1, incomplete.index)

\* C12: byte accounting.  Once every byte of a well-formed stream has arrived
\* and the framed reader waits for the port, every byte has come out as text:
\* none is left in the read buffer and none is stored in the decoder.
ByteAccounting ==
    (fed = Len(input) /\ from_utf8_ok(input))
        => /\ src = <<>>
           /\ incomplete.index = 0
           /\ out = to_str(input)

\* C16: pending-buffer invariant.  After every call of decode the stored bytes
\* are a strict prefix of some well-formed character; a byte that can neither
\* start nor continue a character where it stands is never left stored.
PendingIsCharPrefix == IsCharPrefix(Pending)

\* C17: decode returns None only when it has taken every byte of the chunk.
NoneOnlyWhenDrained ==
    [][DecodeStep => (lastRet'.kind = "None" => src' = <<>>)]_vars

\* C18: fragmentation independence.  Once every byte of a stream has been
\* taken, the concatenation of the fragments is what the stream gives when it
\* is delivered as a single chunk, whatever the pieces were.
FragmentationIndependent ==
    AllConsumed => out = DecodeAll(StringDecoder_new, input)

\* C20: pending flush on valid text.  A call of decode on a chunk that is, or
\* begins with, valid text returns that text, preceded by exactly one U+FFFD
\* when bytes were stored and by nothing when none were, takes exactly those
\* bytes from the chunk and leaves nothing stored.
PendingFlushedOnValidText ==
    [][(DecodeStep /\ valid_up_to(src) > 0)
        => LET v == valid_up_to(src)
               valid == to_str(SubSeq(src, 1, v))
           IN  /\ lastRet' = Some(IF incomplete.index > 0
                                  THEN <<REPLACEMENT_CHARACTER>> \o valid
                                  ELSE valid)
               /\ out' = out \o lastRet'.text
               /\ src' = SubSeq(src, v + 1, Len(src))
               /\ incomplete'.index = 0]_vars

\* The lead byte of a three-byte character was stored, 'a' followed, and decode
\* returned U+FFFD and 'a' and holds nothing.
PendingFlushedWitness ==
    /\ lastRet = Some(<<REPLACEMENT_CHARACTER, 97>>)
    /\ incomplete.index = 0
    /\ incomplete.buf[1] = 226
    /\ input = <<226, 97>>

\* C21: pending count bound.  Every call of decode starts with a count of 0
\* to 3, so the byte it stores lands inside the four-byte buffer, and ends
\* with one; a call in which the count reaches 4 returns a text of one
\* character, the completed character or U+FFFD, and leaves the count at 0.
PendingCountBound ==
    [][DecodeStep
        => /\ incomplete.index \in 0..3
           /\ incomplete'.index \in 0..3
           /\ (incomplete.index = 3 /\ valid_up_to(src) = 0)
                => /\ lastRet'.kind = "Some"
                   /\ lastRet'.text = IF from_utf8_ok(SubSeq(incomplete'.buf, 1, 4))
                                      THEN to_str(SubSeq(incomplete'.buf, 1, 4))
                                      ELSE <<REPLACEMENT_CHARACTER>>
                   /\ incomplete'.index = 0]_vars

\* A four-byte character arrived byte by byte: the fourth byte filled the
\* buffer and the call returned the character and emptied the buffer.
PendingCountWitness ==
    /\ incomplete = [buf |-> <<240, 169, 169, 169>>, index |-> 0]
    /\ lastRet = Some(to_str(<<240, 169, 169, 169>>))
    /\ out = lastRet.text

RECURSIVE SrcAfter(_, _, _)
\* What is left of the chunk s after at most n calls of decode.
SrcAfter(inc, s, n) ==
    IF n = 0 \/ s = <<>> THEN s
    ELSE LET r == decode(inc, s)
         IN  SrcAfter(r.incomplete, r.src, n - 1)

\* C22: decoder progress.  Whatever the decoder has stored and whatever the
\* chunk holds, a call of decode on a non-empty chunk takes at least one byte
\* from it, so that invoking decode again and again on what is left empties a
\* chunk of n bytes within n calls.
DecoderProgress ==
    src # <<>>
        => /\ Len(decode(incomplete, src).src) < Len(src)
           /\ SrcAfter(incomplete, src, Len(src)) = <<>>

\* A chunk of three bytes that form no text has been emptied by three calls,
\* each taking one byte.
DecoderProgressWitness ==
    /\ AllConsumed
    /\ Len(input) = 3
    /\ incomplete.index = 3
    /\ out = <<>>

-----------------------------------------------------------------------------
(* Properties of the session *)

\* The loop takes the oldest item of the event stream in this step.
TakesEvent == loopState = "Running" /\ evbuf # <<>> /\ consumed' = consumed + 1

\* C3: exit precedence.  The step that takes the exit event from the event
\* stream leaves the loop with nothing translated, enqueued or printed, and
\* from then on no item is taken from the event stream and nothing is enqueued
\* or printed, whatever is buffered behind the exit event or arrives later.
ExitPrecedence ==
    [][ /\ (TakesEvent /\ Head(evbuf) = OkItem(exit_code(config)))
           => /\ loopState' = "Terminated"
              /\ reason' = "UserExit"
              /\ outq' = outq
              /\ display' = display
        /\ (loopState = "Terminated" /\ reason = "UserExit")
           => /\ loopState' = "Terminated"
              /\ consumed' = consumed
              /\ outq' = outq
              /\ written' = written
              /\ display' = display ]_vars

\* The process has ended after a user exit with an event still buffered
\* behind the exit event.
ExitPrecedenceWitness ==
    /\ mainPc = "exited"
    /\ reason = "UserExit"
    /\ last = Ran("event", "Ok", exit_code(config))
    /\ evbuf # <<>>
    /\ config.ctrl_y_exit

\* C4: serial closure.  After the framed serial reader has yielded None the
\* loop is no longer running.
SerialClosureTerminates ==
    (last.arm = "serial" /\ last.tag = "None") => loopState = "Terminated"

\* C5: serial error.  After the framed serial reader has yielded an error the
\* loop has ended at once, by the serial-error path, and monitor returned Ok.
SerialErrorEndsOk ==
    (last.arm = "serial" /\ last.tag = "Err")
        => /\ loopState = "Terminated"
           /\ reason = "SerialError"
           /\ result = "Ok"

\* The process has ended after a serial error.
SerialErrorWitness ==
    /\ last.arm = "serial"
    /\ last.tag = "Err"
    /\ result = "Ok"
    /\ mainPc = "exited"

\* C6: keyboard source end.  After the terminal event stream has yielded None
\* or an error the loop is no longer running.
KeyboardEndTerminates ==
    (last.arm = "event" /\ last.tag \in {"None", "Err"}) => loopState = "Terminated"

\* C7: write failure.  After the forward future has completed with the error
\* of a write to the serial sink the loop is no longer running.
WriteFailureTerminates ==
    last.arm = "poll_send" => loopState = "Terminated"

\* C8: terminal mode restoration.  When the process has finished and raw mode
\* had been enabled (the loop was started), disable_raw_mode has been called,
\* whichever way the loop ended and whether monitor returned Ok or Err; raw
\* mode is still on only when that call itself failed.
RawModeRestored ==
    (mainPc = "exited" /\ loopState # "NotStarted")
        => /\ loopState = "Terminated"
           /\ disableCalls = 1

\* The process has finished after monitor returned an error (a failed
\* display write) and raw mode is off again.
RawModeRestoredWitness ==
    /\ mainPc = "exited"
    /\ reason = "Error"
    /\ result = "Err"
    /\ disableCalls = 1
    /\ ~rawMode

-----------------------------------------------------------------------------
(* Properties of the translator *)

\* The table of key bytes, written out.
NamedKeyTable(k, enter) ==
    CASE k = "Backspace" -> <<8>>
      [] k = "Enter" /\ enter = "Cr" -> <<13>>
      [] k = "Enter" /\ enter = "Crlf" -> <<13, 10>>
      [] k = "Enter" /\ enter = "Lf" -> <<10>>
      [] k = "Left" -> <<27, 91, 68>>
      [] k = "Right" -> <<27, 91, 67>>
      [] k = "Up" -> <<27, 91, 65>>
      [] k = "Down" -> <<27, 91, 66>>
      [] k = "Home" -> <<27, 91, 72>>
      [] k = "End" -> <<27, 91, 70>>
      [] k = "Tab" -> <<9>>
      [] k = "Delete" -> <<27, 91, 51, 126>>
      [] k = "Insert" -> <<27, 91, 50, 126>>
      [] k = "Esc" -> <<27>>

\* The UTF-8 encodings of the characters of KeyCodes, written out.
Utf8Table(ch) ==
    CASE ch = 233 -> <<195, 169>>
      [] ch = 8364 -> <<226, 130, 172>>
      [] ch = 128512 -> <<240, 159, 152, 128>>
      [] ch = 97 -> <<97>>
      [] ch = 113 -> <<113>>
      [] ch = 120 -> <<120>>
      [] ch = 121 -> <<121>>
      [] ch = 122 -> <<122>>
      [] ch = 32 -> <<32>>
      [] ch = 51 -> <<51>>
      [] ch = 52 -> <<52>>
      [] ch = 53 -> <<53>>
      [] ch = 54 -> <<54>>
      [] ch = 55 -> <<55>>
      [] ch = 56 -> <<56>>
      [] ch = 65 -> <<65>>
      [] ch = 96 -> <<96>>
      [] ch = 123 -> <<123>>

\* The characters of KeyCodes that have a control byte: lowercase letters and
\* space, and '4'..'7'.
HasControlByte(ch) == ch = 97 \/ ch = 113 \/ ch = 120 \/ ch = 121 \/ ch = 122
                      \/ ch = 32 \/ ch = 52 \/ ch = 53 \/ ch = 54 \/ ch = 55

\* Their control bytes, written out: the letter or space masked with 0x1f,
\* and 1C..1F for '4'..'7'.
ControlTable(ch) ==
    CASE ch = 97 -> <<1>>
      [] ch = 113 -> <<17>>
      [] ch = 120 -> <<24>>
      [] ch = 121 -> <<25>>
      [] ch = 122 -> <<26>>
      [] ch = 32 -> <<0>>
      [] ch = 52 -> <<28>>
      [] ch = 53 -> <<29>>
      [] ch = 54 -> <<30>>
      [] ch = 55 -> <<31>>

\* The chunks the table gives for a key event: one chunk, or none.
TableChunks(ev, enter) ==
    LET k == ev.code.k
        ch == ev.code.ch
    IN  IF k = "Char"
        THEN IF ev.modifiers \in {CONTROL, CONTROL + SHIFT} /\ HasControlByte(ch)
             THEN <<ControlTable(ch)>>
             ELSE <<Utf8Table(ch)>>
        ELSE IF k \in {"Backspace", "Enter", "Left", "Right", "Up", "Down", "Home",
                       "End", "Tab", "Delete", "Insert", "Esc"}
        THEN <<NamedKeyTable(k, enter)>>
        ELSE <<>>

\* The loop takes a key event that is not the exit event and stays running
\* (the echo, if any, could be flushed).
TranslatesKey ==
    /\ TakesEvent
    /\ Head(evbuf).tag = "Ok"
    /\ Head(evbuf).ev.type = "Key"
    /\ Head(evbuf).ev # exit_code(config)
    /\ loopState' = "Running"

\* C9: translator table exactness.  For every key event the loop translates,
\* what is enqueued on the outgoing channel is exactly the bytes of the table
\* for it, as one chunk, and nothing is enqueued for a key code the table does
\* not hold.
TranslatorTable ==
    [][ TranslatesKey
        => outq' = outq \o TableChunks(Head(evbuf).ev, config.enter) ]_vars

\* Control-4 has been translated to the byte 1C.
TranslatorTableWitness ==
    /\ last = Ran("event", "Ok", Key(Char(52), CONTROL, "Press", NONE))
    /\ outq = << <<28>> >>
    /\ config.enter = "Crlf"

\* What the step added to the display.
NewShown == SubSeq(display', Len(display) + 1, Len(display'))

IsEcho(w) == w.kind = "echo"
IsNoEcho(w) == w.kind # "echo"

\* C10: echo fidelity.  When the loop translates a key event for a character
\* without CONTROL, the bytes of the character's UTF-8 encoding are enqueued
\* once on the outgoing channel; with echo enabled the same bytes are written
\* once to the display as the local echo, with echo disabled no echo is
\* written.  Anything else the step prints is trace output of debug mode.
\* (The display accepts the echo: when stdout().flush() fails the loop ends
\* with the error instead.)
EchoFidelity ==
    [][ (TranslatesKey /\ Head(evbuf).ev.code.k = "Char"
                       /\ Head(evbuf).ev.modifiers \in {NONE, SHIFT})
        => LET bytes == Utf8Table(Head(evbuf).ev.code.ch)
           IN  /\ outq' = Append(outq, bytes)
               /\ IsPrefix(display, display')
               /\ SelectSeq(NewShown, IsEcho)
                    = IF config.echo THEN <<Shown("echo", bytes)>> ELSE <<>>
               /\ \A i \in 1..Len(NewShown) :
                     IsNoEcho(NewShown[i]) => (debug /\ NewShown[i].kind = "trace") ]_vars

\* With echo enabled and debug off, 'q' has been echoed once and enqueued once.
EchoFidelityWitness ==
    /\ last = Ran("event", "Ok", Key(Char(113), NONE, "Press", NONE))
    /\ config.echo
    /\ ~debug
    /\ display = <<Shown("echo", <<113>>)>>
    /\ outq = << <<113>> >>

\* C15: exit status.  Every fatal outcome of main gives a status other than
\* that of success, and the status given when no device matches is given by no
\* other failure: invalid data or stop bits, a port that cannot be opened, a
\* terminal that cannot be switched, an error of the session loop.
ExitStatusDistinguishes ==
    mainPc = "exited"
        => /\ exit[1] # "Ok" => exit[2] # SUCCESS
           /\ exit[1] \notin {"Ok", "NoPortFound"} => exit[2] # no_usp_ports_found

\* C13: outgoing ordering.  The chunks written to the sink followed by the
\* chunks still queued are the byte sequences of the key events in the order
\* the events were taken: a key event adds its bytes as one chunk at the end,
\* the sink only ever receives the oldest queued chunk, and no other step
\* changes, repeats or reorders a chunk.
ChunkOrder ==
    [][ LET q == written \o outq
            ev == Head(evbuf).ev
        IN  /\ IsPrefix(written, written')
            /\ IF /\ TakesEvent
                  /\ Head(evbuf).tag = "Ok"
                  /\ ev.type = "Key"
                  /\ ~IsExit(ev)
                  /\ key_str(ev, config).kind = "Some"
                  /\ loopState' = "Running"
               THEN written' \o outq' = Append(q, key_str(ev, config).text)
               ELSE written' \o outq' = q ]_vars

\* Two key events with different bytes have reached the sink.
ChunkOrderWitness ==
    /\ Len(written) = 2
    /\ written[1] # written[2]
    /\ outq = <<>>

\* C14: no silent drop.  The step that takes an event which is not the exit
\* event and gives no bytes to send (an event that is no key event, or a key
\* with no entry in the table) prints something, with debug off as well.
NoSilentDrop ==
    [][ LET ev == Head(evbuf).ev
        IN  (/\ TakesEvent
             /\ Head(evbuf).tag = "Ok"
             /\ ~IsExit(ev)
             /\ (ev.type # "Key" \/ key_str(ev, config).kind = "None"))
            => Len(display') > Len(display) ]_vars

\* C19: a stalled writer does not block reading.  While chunks are queued
\* that the sink has not taken, the loop can take the event the terminal has
\* delivered and whatever the framed serial reader yields.
WriterStallDoesNotBlock ==
    (mainPc = "monitor" /\ loopState = "Running" /\ outq # <<>>)
        => /\ evbuf # <<>> => \A flushOk \in BOOLEAN : ENABLED EventArm(flushOk)
           /\ \A item \in {OkItem(NoEvent), ErrItem, NoneItem}, s \in SerialTexts,
                 flushOk \in BOOLEAN : ENABLED SerialArm(item, s, flushOk)

\* With a chunk queued that the sink never took, a later event and an item of
\* the serial reader have been handled.
WriterStallWitness ==
    /\ written = <<>>
    /\ Len(outq) = 1
    /\ consumed = 2
    /\ serialSeen = 1
    /\ loopState = "Running"
    /\ last = Ran("event", "Ok", OtherEvent("Resize"))

\* C23: enqueue never fails.  While the loop runs, also after the forward
\* future has completed with the error of a write, the receiver of the channel
\* is alive, so unbounded_send succeeds and its unwrap never panics.
EnqueueNeverFails ==
    /\ (mainPc = "monitor" /\ loopState = "Running") => ReceiverAlive
    /\ reason # "Panic"

\* The forward future has completed with an error with one chunk queued, and
\* the key pressed after that has been enqueued behind it.
EnqueueNeverFailsWitness ==
    /\ poll_send = "failed"
    /\ last = Ran("event", "Ok", Key(Char(113), NONE, "Press", NONE))
    /\ Len(outq) = 2
    /\ written = <<>>
    /\ loopState = "Running"

\* C24: only the exact exit code exits.  The step that takes a key event
\* differing from the exit code in its code, modifiers, kind or state never
\* leaves the loop as a user exit; the loop ends on it only when the echo of
\* its bytes cannot be written.  Control with the letter x or y, when it is
\* not the exit code (the other letter, a further modifier, a release, a
\* different state), is translated to the control byte 18 or 19 (hexadecimal)
\* and enqueued while the loop stays running.
OnlySentinelExits ==
    [][ LET ev == Head(evbuf).ev
        IN  (/\ TakesEvent
             /\ Head(evbuf).tag = "Ok"
             /\ ev.type = "Key"
             /\ ev # exit_code(config))
            => /\ reason' # "UserExit"
               /\ loopState' = "Terminated" => (config.echo /\ reason' = "Error")
               /\ ~config.echo => loopState' = "Running"
               /\ (/\ loopState' = "Running"
                   /\ ev.code \in {Char(120), Char(121)}
                   /\ HasControl(ev.modifiers))
                  => outq' = Append(outq, IF ev.code = Char(120) THEN <<24>>
                                                                 ELSE <<25>>) ]_vars

\* With Ctrl+X the exit code, Ctrl+Y was pressed: the loop runs on and the
\* byte 19 (hexadecimal) is queued for the device.
OnlySentinelExitsWitness ==
    /\ ~config.ctrl_y_exit
    /\ last = Ran("event", "Ok", Key(Char(121), CONTROL, "Press", NONE))
    /\ outq = << <<25>> >>
    /\ loopState = "Running"

====
